---- MODULE Spec2Model ----
(***************************************************************************)
(* Skip-list priority queue of prioq.c (set_update, set_removemin,         *)
(* set_remove) with the epoch allocator it consumes.                       *)
(*                                                                         *)
(* A forward pointer is the record [p |-> node, m |-> offset]: the machine *)
(* word is the address of node p plus m.  m = 0 is the aligned, unmarked   *)
(* pointer, m = 1 the marked one; fetch-and-add 1 on a marked word gives   *)
(* m = 2, an unmarked word that is the address of no node.                 *)
(***************************************************************************)
EXTENDS Integers, FiniteSets

\* ---------------------------------------------------------------- bounds
NUM_LEVELS == 2
MaxNodes == 3
MaxKey == 3
NThreads == 2

\* ------------------------------------------------------ program constants
SENTINEL_KEYMIN == 0
LOOP0_LIMIT == 10

SENTINEL_KEYMAX == MaxKey + 1

Head == 0
Nodes == 1..MaxNodes
Tail == MaxNodes + 1
END == MaxNodes + 2
NIL == MaxNodes + 3

AllNodes == {Head, Tail} \cup Nodes

Threads == 1..NThreads
Levels == 0..(NUM_LEVELS - 1)
Keys == 1..MaxKey

\* A word holding no pointer (zero-initialised thread-local storage).
NULLP == [p |-> NIL, m |-> 0]

Ref(n) == [p |-> n, m |-> 0]

is_marked_ref(w) == w.m % 2 = 1

get_unmarked_ref(w) == [p |-> w.p, m |-> w.m - (w.m % 2)]

get_marked_ref(w) == [p |-> w.p, m |-> w.m + (1 - (w.m % 2))]

VARIABLES
    nxt,        \* nxt[n][i]: the word in n->next[i]
    key,        \* key[n]: n->k
    level,      \* level[n]: n->level
    st,         \* st[n]: "avail" (in the allocator), "alloc", "retired" (free_node called)
    hold,       \* hold[n]: threads whose critical section still protects retired n
    max_offset, \* l->max_offset
    th,         \* th[t]: thread t's position, locals and thread-local cache
    todo,       \* todo[t]: operations thread t has still to call, by kind
    gh          \* history: what the operations did so far

vars == <<nxt, key, level, st, hold, max_offset, th, todo, gh>>

\* ------------------------------------------------------------ dereference
\* A word that is the address of memory a thread may read: an aligned
\* address of head, tail or a node that the allocator does not hold.
Valid(w) ==
    /\ w.m = 0
    /\ w.p \in ({Head, Tail} \cup Nodes)
    /\ (w.p \in Nodes => st[w.p] # "avail")

\* ---------------------------------------------------------------- searches
Fuel == MaxNodes + 3

RECURSIVE wsp_level(_, _, _, _, _)
\* The inner for(;;) of weak_search_predecessors at level i, from x.
wsp_level(x, i, k, bef, fuel) ==
    LET x_next == get_unmarked_ref(nxt[x][i]) IN
    IF fuel = 0 THEN [res |-> "loop"]
    ELSE IF ~Valid(x_next) THEN [res |-> "ub"]
    ELSE IF key[x_next.p] > k \/ (bef /\ key[x_next.p] = k)
         THEN [res |-> "ok", x |-> x, x_next |-> x_next.p]
    ELSE wsp_level(x_next.p, i, k, bef, fuel - 1)

RECURSIVE wsp_from(_, _, _, _, _, _)
wsp_from(x, i, k, bef, pa, na) ==
    LET r == wsp_level(x, i, k, bef, Fuel) IN
    IF r.res # "ok" THEN [res |-> r.res]
    ELSE LET pa2 == [pa EXCEPT ![i] = r.x]
             na2 == [na EXCEPT ![i] = r.x_next]
         IN IF i = 0 THEN [res |-> "ok", x |-> r.x, pa |-> pa2, na |-> na2]
            ELSE wsp_from(r.x, i - 1, k, bef, pa2, na2)

NoNodes == [i \in Levels |-> NIL]

weak_search_predecessors(k, bef) ==
    wsp_from(Head, NUM_LEVELS - 1, k, bef, NoNodes, NoNodes)

RECURSIVE wsh_level(_, _, _)
\* The inner for(;;) of weak_search_head at level i, from x.
wsh_level(x, i, fuel) ==
    LET x_next == get_unmarked_ref(nxt[x][i]) IN
    IF fuel = 0 THEN [res |-> "loop"]
    ELSE IF x_next.p = END /\ x_next.m = 0 THEN [res |-> "ok", x |-> x, x_next |-> x_next]
    ELSE IF ~Valid(x_next) THEN [res |-> "ub"]
    ELSE IF ~is_marked_ref(nxt[x_next.p][0]) THEN [res |-> "ok", x |-> x, x_next |-> x_next]
    ELSE wsh_level(x_next.p, i, fuel - 1)

RECURSIVE wsh_from(_, _)
wsh_from(x, i) ==
    LET r == wsh_level(x, i, Fuel) IN
    IF r.res # "ok" THEN [res |-> r.res]
    ELSE IF i = 0 THEN [res |-> "ok", x_next |-> r.x_next]
    ELSE wsh_from(r.x, i - 1)

weak_search_head == wsh_from(Head, NUM_LEVELS - 1)

RECURSIVE wse_level(_, _, _, _)
\* The inner for(;;) of weak_search_end at level i, from x; lvl is the
\* first level found to need updating so far (0: none).
wse_level(x, i, lvl, fuel) ==
    LET x_next == nxt[x][i] IN
    IF fuel = 0 THEN [res |-> "loop"]
    ELSE IF ~Valid(x_next) THEN [res |-> "ub"]
    ELSE IF ~is_marked_ref(nxt[x_next.p][0]) THEN [res |-> "ok", x |-> x, lvl |-> lvl]
    ELSE wse_level(x_next.p, i, IF lvl = 0 THEN i ELSE lvl, fuel - 1)

RECURSIVE wse_from(_, _, _, _)
wse_from(x, i, lvl, pa) ==
    IF i < 1 THEN [res |-> "ok", lvl |-> lvl, pa |-> pa]
    ELSE LET r == wse_level(x, i, lvl, Fuel) IN
         IF r.res # "ok" THEN [res |-> r.res]
         ELSE wse_from(r.x, i - 1, r.lvl, [pa EXCEPT ![i] = r.x])

weak_search_end(pa, toplvl) ==
    wse_from(Head,
             IF toplvl = -1 THEN NUM_LEVELS - 1 ELSE toplvl,
             IF toplvl > 0 THEN toplvl ELSE 0,
             pa)

\* ------------------------------------------------------------ thread state
\* What set_removemin returned: a key, SENTINEL_KEYMAX (tail's key), or
\* RetNull (the "return NULL" at END).  NoRet: nothing returned yet.
RetNull == SENTINEL_KEYMIN
NoRet == 0 - 1

\* A thread between two calls: locals are dead, the __thread cache
\* (pt, old_obs_hp, old_offset) and the critical-section depth are kept.
Idle(r) ==
    [pc |-> "idle", k |-> 0, new |-> NIL, lev |-> 0,
     preds |-> NoNodes, succs |-> NoNodes,
     x |-> NULLP, x_next |-> NULLP, i |-> 0, loop0 |-> 0,
     offset |-> 0, lvl |-> 0, next |-> NULLP,
     pt |-> r.pt, old_obs_hp |-> r.old_obs_hp, old_offset |-> r.old_offset,
     crit |-> r.crit, ret |-> r.ret]

Thread0 ==
    Idle([pt |-> NULLP, old_obs_hp |-> NULLP, old_offset |-> 0,
          crit |-> 0, ret |-> NoRet])

\* A thread that dereferenced a word that is no node's address, or memory
\* the allocator holds: the behaviour is undefined from there on.  The thread
\* takes no further step and completes no operation, so no statement about
\* completed operations is made for it after this point.
Undefined(r) == [Idle(r) EXCEPT !.pc = "ub"]

\* A thread whose traversal never ends (a cycle of forward pointers).
Spinning(r) == [Idle(r) EXCEPT !.pc = "spin"]

Broken(r, res) == IF res = "ub" THEN Undefined(r) ELSE Spinning(r)

\* --------------------------------------------------------------- history
Bag0 == [k \in 0..SENTINEL_KEYMAX |-> 0]

\* No round trip under way.
NoTrip == [on |-> FALSE, want |-> Bag0]

Gh0 ==
    [absq |-> Bag0,        \* keys inserted and not yet returned, by linearisation point
     seq |-> TRUE,         \* no two calls have overlapped so far
     drainPrev |-> NoRet,  \* the last two results of the current run of
     drainCur |-> NoRet,   \*   consecutive delete_min calls (no insert between)
     wasMin |-> TRUE,      \* the last delete_min took a minimum of absq
     known |-> TRUE,       \* the last delete_min took a key of absq
     remAsk |-> NoRet,     \* the key the last set_remove was called with,
     remGot |-> NoRet,     \*   and the key of the node it deleted (RetNull: none)
     rem |-> FALSE,        \* set_remove has been called
     last |-> NoRet,       \* the key of the insert linked last, no call begun since
     rt |-> NoTrip,        \* the call under way undoes the insert before it
     won |-> [n \in Nodes \cup {Head, Tail} |-> 0],   \* marking steps that won n
     stale |-> {},         \* threads whose cached pt was passed to free_node
     nfree |-> [n \in Nodes \cup {Head, Tail} |-> 0],  \* free_node calls per node
     dels |-> 0,           \* delete_min calls that took a key, and successful
     swings |-> 0,         \*   head swings, since the last insert or remove
     owed |-> [t \in Threads |-> {}],   \* nodes unlinked by t's head swing, not yet freed
     badfree |-> {},       \* what went wrong in a free_node call so far
     pool |-> [n \in Nodes |-> 0],   \* l when n was last taken from gc_id[l - 1]
     misfiled |-> {}]      \* nodes handed back to another pool than pool[n]

Busy(t) == th[t].pc \notin {"idle", "ub", "spin"}

\* gh after thread t begins a call while others may be inside one.
Began(t) ==
    [gh EXCEPT !.seq = gh.seq /\ \A u \in Threads \ {t} : ~Busy(u),
               !.last = NoRet, !.rt = NoTrip]

\* A call begun by t that takes key k out again right after the insert that
\* put it in: the keys in the queue are to be those before that insert.
Undoes(t, k) ==
    [Began(t) EXCEPT !.rt = IF gh.seq /\ gh.last = k /\ Began(t).seq
                            THEN [on |-> TRUE, want |-> [gh.absq EXCEPT ![k] = @ - 1]]
                            ELSE NoTrip]

BagMin(b) ==
    IF \E k \in DOMAIN b : b[k] > 0
    THEN CHOOSE k \in DOMAIN b : b[k] > 0 /\ \A j \in DOMAIN b : b[j] > 0 => k <= j
    ELSE SENTINEL_KEYMAX + 1

\* ------------------------------------------------------------------ epochs
InCritical == {t \in Threads : th[t].crit > 0}

\* free_node(n) by a thread inside a critical section: n is retired, and
\* handed back to the allocator when every critical section current at
\* that time has ended.
free_node(s, h, n) ==
    [st |-> [s EXCEPT ![n] = "retired"], hold |-> [h EXCEPT ![n] = InCritical]]

\* critical_exit of t on the allocator state (s, h).
exit_st(s, h, t, depth) ==
    [n \in Nodes |->
        IF s[n] = "retired" /\ depth = 0 /\ h[n] \subseteq {t} THEN "avail" ELSE s[n]]

exit_hold(h, t, depth) ==
    [n \in Nodes |-> IF depth = 0 THEN h[n] \ {t} ELSE h[n]]

\* critical_enter / critical_exit on the thread's depth.
critical_enter(r) == [r EXCEPT !.crit = r.crit + 1]

critical_exit(r) == [r EXCEPT !.crit = IF r.crit > 0 THEN r.crit - 1 ELSE 0]

\* A call returns through "success:" / "out:": critical_exit, locals dead.
ReturnWith(t, r, s, h) ==
    /\ th' = [th EXCEPT ![t] = Idle(critical_exit(r))]
    /\ st' = exit_st(s, h, t, critical_exit(r).crit)
    /\ hold' = exit_hold(h, t, critical_exit(r).crit)

Return(t, r) == ReturnWith(t, r, st, hold)

\* ------------------------------------------------------------- set_alloc
Init0 ==
    /\ nxt = [n \in {Head, Tail} \cup Nodes |->
                [i \in Levels |-> IF n = Head THEN Ref(Tail)
                                  ELSE IF n = Tail THEN Ref(END) ELSE NULLP]]
    /\ key = [n \in {Head, Tail} \cup Nodes |->
                IF n = Tail THEN SENTINEL_KEYMAX ELSE SENTINEL_KEYMIN]
    /\ level = [n \in {Head, Tail} \cup Nodes |-> IF n = Head THEN NUM_LEVELS ELSE 0]
    /\ st = [n \in Nodes |-> "avail"]
    /\ hold = [n \in Nodes |-> {}]
    /\ th = [t \in Threads |-> Thread0]
    /\ gh = Gh0

\* ------------------------------------------------------------- alloc_node
\* gc_alloc(gc_id[l - 1]): a chunk of pool l - 1, either one handed back by
\* free_node with level l, or fresh memory (the lowest unused address).
Fresh == {n \in Nodes : st[n] = "avail" /\ level[n] = 0}

AllocChoices(l) ==
    {n \in Nodes : st[n] = "avail" /\ level[n] = l}
    \cup {n \in Fresh : \A f \in Fresh : n <= f}

\* --------------------------------------------------------------- set_update
\* The level-0 CAS that links the new node took effect: the insert is
\* linearised.
InsLP(g, k) ==
    [g EXCEPT !.absq[k] = @ + 1, !.drainPrev = NoRet, !.drainCur = NoRet, !.last = k,
              !.dels = 0, !.swings = 0]

\* critical_enter, alloc_node, new->k = k.
InsBegin(t) ==
    /\ th[t].pc = "idle"
    /\ todo[t].ins > 0
    /\ \E k \in todo[t].keys, l \in todo[t].lvls :
         \E n \in AllocChoices(l) :
            /\ th' = [th EXCEPT ![t] =
                        [critical_enter(@) EXCEPT !.pc = "ins_search", !.k = k, !.new = n]]
            /\ level' = [level EXCEPT ![n] = l]
            /\ key' = [key EXCEPT ![n] = k]
            /\ st' = [st EXCEPT ![n] = "alloc"]
            /\ gh' = [Began(t) EXCEPT !.won[n] = 0, !.pool[n] = l]
    /\ todo' = [todo EXCEPT ![t].ins = @ - 1]
    /\ UNCHANGED <<nxt, hold, max_offset>>

\* The loop started at i = 1: new->next[0] keeps what the memory held.
init_next_from1(old, succs, lev) ==
    [i \in Levels |-> IF 0 < i /\ i < lev THEN Ref(succs[i]) ELSE old[i]]

\* "for ( i = 0; i < level; i++ ) new->next[i] = succs[i];" on the forward
\* pointers old of the new node.
init_next(old, succs, lev) ==
    [i \in Levels |-> IF i < lev THEN Ref(succs[i]) ELSE old[i]]

\* retry: level = new->level; weak_search_predecessors; new->next[i] = succs[i].
InsSearch(t) ==
    /\ th[t].pc = "ins_search"
    /\ LET r == th[t]
           s == weak_search_predecessors(r.k, FALSE)
           lev == level[r.new]
       IN IF s.res # "ok"
          THEN /\ th' = [th EXCEPT ![t] = Broken(r, s.res)]
               /\ UNCHANGED nxt
          ELSE /\ th' = [th EXCEPT ![t] =
                           [r EXCEPT !.pc = "ins_commit", !.lev = lev,
                                     !.preds = s.pa, !.succs = s.na, !.loop0 = 0]]
               /\ nxt' = [nxt EXCEPT ![r.new] = init_next(@, s.na, lev)]
    /\ UNCHANGED <<key, level, st, hold, max_offset, todo, gh>>

\* After the level-0 link: on to the upper levels, or "success:".
Linked(t, r) ==
    IF 1 < r.lev
    THEN /\ th' = [th EXCEPT ![t] = [r EXCEPT !.pc = "ins_upper", !.i = 1]]
         /\ UNCHANGED <<st, hold>>
    ELSE Return(t, r)

\* old_next = CASPO(&preds[0]->next[0], succ, new), and on failure the
\* read of preds[0]->next[0] that tells a deleted succ from a competing insert.
InsCommit(t) ==
    /\ th[t].pc \in {"ins_commit", "ins_check"}
    /\ LET r == th[t]
           p == r.preds[0]
       IN IF ~Valid(Ref(p))
          THEN /\ th' = [th EXCEPT ![t] = Undefined(r)]
               /\ UNCHANGED <<nxt, level, st, hold, gh>>
          ELSE IF r.pc = "ins_commit"
          THEN IF nxt[p][0] = Ref(r.succs[0])
               THEN /\ nxt' = [nxt EXCEPT ![p][0] = Ref(r.new)]
                    /\ gh' = InsLP(gh, r.k)
                    /\ Linked(t, r)
                    /\ UNCHANGED level
               ELSE /\ th' = [th EXCEPT ![t] = [r EXCEPT !.pc = "ins_check"]]
                    /\ UNCHANGED <<nxt, level, st, hold, gh>>
          ELSE IF is_marked_ref(nxt[p][0])
               THEN /\ level' = [level EXCEPT ![r.new] = 1]
                    /\ th' = [th EXCEPT ![t] =
                                [r EXCEPT !.pc = "orph_read",
                                          !.x = get_unmarked_ref(nxt[p][0])]]
                    /\ UNCHANGED <<nxt, st, hold, gh>>
               ELSE /\ th' = [th EXCEPT ![t] = [r EXCEPT !.pc = "ins_search"]]
                    /\ UNCHANGED <<nxt, level, st, hold, gh>>
    /\ UNCHANGED <<key, max_offset, todo>>

\* The do-loop that places a node whose predecessor was deleted: the read
\* of x->next[0] (after weak_search_head every LOOP0_LIMIT rounds), and the
\* CAS that squeezes the node in behind x.
InsOrphan(t) ==
    /\ th[t].pc \in {"orph_read", "orph_cas"}
    /\ LET r == th[t] IN
       IF r.pc = "orph_read"
       THEN LET l0 == r.loop0 + 1
                h == IF l0 > LOOP0_LIMIT THEN weak_search_head
                     ELSE [res |-> "ok", x_next |-> r.x]
                loop0 == IF l0 > LOOP0_LIMIT THEN 0 ELSE l0
            IN /\ IF h.res # "ok"
                  THEN th' = [th EXCEPT ![t] = Broken(r, h.res)]
                  ELSE IF ~Valid(h.x_next)
                  THEN th' = [th EXCEPT ![t] = Undefined(r)]
                  ELSE LET x_next == nxt[h.x_next.p][0] IN
                       IF ~is_marked_ref(x_next)
                       THEN th' = [th EXCEPT ![t] =
                                     [r EXCEPT !.pc = "orph_cas", !.loop0 = loop0,
                                               !.x = h.x_next, !.x_next = x_next]]
                       ELSE th' = [th EXCEPT ![t] =
                                     [r EXCEPT !.loop0 = loop0,
                                               !.x = get_unmarked_ref(x_next),
                                               !.x_next = x_next]]
               /\ UNCHANGED <<nxt, st, hold, gh>>
       ELSE IF nxt[r.x.p][0] = r.x_next
            THEN /\ nxt' = [nxt EXCEPT ![r.new][0] = r.x_next, ![r.x.p][0] = Ref(r.new)]
                 /\ gh' = InsLP(gh, r.k)
                 /\ Return(t, r)
            ELSE /\ nxt' = [nxt EXCEPT ![r.new][0] = r.x_next]
                 /\ th' = [th EXCEPT ![t] =
                             [r EXCEPT !.pc = "orph_read", !.x = get_unmarked_ref(r.x_next)]]
                 /\ UNCHANGED <<st, hold, gh>>
    /\ UNCHANGED <<key, level, max_offset, todo>>

\* One round of "while ( i < level )": new->next[i] brought up to date and
\* CASPO(&pred->next[i], succ, new); after a failed CAS, the re-check of
\* new->next[0] and the new search.
InsUpper(t) ==
    /\ th[t].pc \in {"ins_upper", "ins_recheck"}
    /\ LET r == th[t]
           pred == r.preds[r.i]
           succ == r.succs[r.i]
       IN IF r.pc = "ins_upper"
          THEN IF key[r.new] # r.k \/ is_marked_ref(nxt[r.new][r.i])
               THEN Return(t, r) /\ UNCHANGED nxt
               ELSE IF ~Valid(Ref(pred))
               THEN /\ th' = [th EXCEPT ![t] = Undefined(r)]
                    /\ UNCHANGED <<nxt, st, hold>>
               ELSE IF nxt[pred][r.i] = Ref(succ)
               THEN /\ nxt' = [nxt EXCEPT ![r.new][r.i] = Ref(succ), ![pred][r.i] = Ref(r.new)]
                    /\ IF r.i + 1 < r.lev
                       THEN /\ th' = [th EXCEPT ![t] = [r EXCEPT !.i = r.i + 1]]
                            /\ UNCHANGED <<st, hold>>
                       ELSE Return(t, r)
               ELSE /\ nxt' = [nxt EXCEPT ![r.new][r.i] = Ref(succ)]
                    /\ th' = [th EXCEPT ![t] = [r EXCEPT !.pc = "ins_recheck"]]
                    /\ UNCHANGED <<st, hold>>
          ELSE /\ UNCHANGED nxt
               /\ IF is_marked_ref(nxt[r.new][0]) \/ key[r.new] # r.k
                  THEN Return(t, r)
                  ELSE LET s == weak_search_predecessors(r.k, FALSE) IN
                       IF s.res # "ok"
                       THEN /\ th' = [th EXCEPT ![t] = Broken(r, s.res)]
                            /\ UNCHANGED <<st, hold>>
                       ELSE IF s.na[0] # r.new
                       THEN Return(t, r)
                       ELSE /\ th' = [th EXCEPT ![t] =
                                        [r EXCEPT !.pc = "ins_upper",
                                                  !.preds = s.pa, !.succs = s.na]]
                            /\ UNCHANGED <<st, hold>>
    /\ UNCHANGED <<key, level, max_offset, todo, gh>>

\* ------------------------------------------------------------ set_removemin
\* gh after a delete_min call produced the result k.
Drained(g, k) == [g EXCEPT !.drainPrev = g.drainCur, !.drainCur = k]

\* The fetch-and-add that set the mark took effect on the node with key k:
\* the delete_min is linearised.
DelLP(g, k) ==
    IF k = SENTINEL_KEYMAX
    THEN [Drained(g, k) EXCEPT !.known = TRUE,
                               !.wasMin = (BagMin(g.absq) > SENTINEL_KEYMAX)]
    ELSE [Drained(g, k) EXCEPT !.absq[k] = IF @ > 0 THEN @ - 1 ELSE 0,
                               !.dels = @ + 1,
                               !.known = g.absq[k] > 0,
                               !.wasMin = (k = BagMin(g.absq))]

\* A marking step of thread t got back the word w.
Marked(g, t, w) ==
    IF is_marked_ref(w) \/ w.p \notin DOMAIN g.won THEN g
    ELSE [g EXCEPT !.won[w.p] = @ + 1]

\* The "return NULL" at END took effect.
EmptyLP(g) ==
    [Drained(g, RetNull) EXCEPT !.known = TRUE,
                                !.wasMin = (BagMin(g.absq) > SENTINEL_KEYMAX)]

\* critical_enter and the choice of the starting point: the cached pt when
\* head->next[0] is still the cached old_obs_hp, else head.
DelBegin(t) ==
    /\ th[t].pc = "idle"
    /\ todo[t].del > 0
    /\ LET r == critical_enter(th[t])
           h == nxt[Head][0]
       IN th' = [th EXCEPT ![t] =
                   IF r.old_obs_hp = h
                   THEN [r EXCEPT !.pc = "del_walk", !.x = r.pt]
                   ELSE [r EXCEPT !.pc = "del_walk", !.x = Ref(Head),
                                  !.old_offset = 0, !.old_obs_hp = h]]
    /\ todo' = [todo EXCEPT ![t].del = @ - 1]
    /\ gh' = IF gh.last # NoRet /\ gh.last <= BagMin(gh.absq)
             THEN Undoes(t, gh.last) ELSE Began(t)
    /\ UNCHANGED <<nxt, key, level, st, hold, max_offset>>

\* One round of the do-loop: the read of x->next[0], and, when it read an
\* unmarked word, __sync_fetch_and_add(&x->next[0], 1).
DelWalk(t) ==
    /\ th[t].pc \in {"del_walk", "del_faa"}
    /\ LET r == th[t] IN
       IF ~Valid(r.x)
       THEN /\ th' = [th EXCEPT ![t] = Undefined(r)]
            /\ UNCHANGED <<nxt, gh>>
       ELSE IF r.pc = "del_walk"
       THEN LET x_next == nxt[r.x.p][0] IN
            /\ UNCHANGED nxt
            /\ IF x_next = Ref(END)
               THEN \* return NULL: no critical_exit on this path
                    /\ th' = [th EXCEPT ![t] = Idle([r EXCEPT !.ret = RetNull])]
                    /\ gh' = EmptyLP(gh)
               ELSE /\ th' = [th EXCEPT ![t] =
                                IF ~is_marked_ref(x_next)
                                THEN [r EXCEPT !.pc = "del_faa", !.offset = @ + 1,
                                               !.x_next = x_next]
                                ELSE [r EXCEPT !.offset = @ + 1, !.x_next = x_next,
                                               !.x = get_unmarked_ref(x_next)]]
                    /\ UNCHANGED gh
       ELSE LET w == nxt[r.x.p][0] IN
            /\ nxt' = [nxt EXCEPT ![r.x.p][0] = [p |-> w.p, m |-> w.m + 1]]
            /\ IF is_marked_ref(w)
               THEN /\ th' = [th EXCEPT ![t] =
                                [r EXCEPT !.pc = "del_walk", !.x_next = w,
                                          !.x = get_unmarked_ref(w)]]
                    /\ UNCHANGED gh
               ELSE IF ~Valid(w)
               THEN /\ th' = [th EXCEPT ![t] = Undefined(r)]
                    /\ gh' = Marked(gh, t, w)
               ELSE /\ th' = [th EXCEPT ![t] =
                                [r EXCEPT !.pc = "del_swing", !.x_next = w, !.x = w,
                                          !.pt = w, !.old_offset = @ + r.offset,
                                          !.k = key[w.p], !.ret = key[w.p]]]
                    /\ gh' = [DelLP(Marked(gh, t, w), key[w.p]) EXCEPT !.stale = @ \ {t}]
    /\ UNCHANGED <<key, level, st, hold, max_offset, todo>>

RECURSIVE between(_, _, _)
\* The nodes on the bottom chain from the word x_next up to, not including,
\* the word x: what the recycling loop is to pass to free_node.
between(x_next, x, fuel) ==
    IF x_next = x \/ fuel = 0 \/ x_next.m # 0 \/ x_next.p \notin AllNodes THEN {}
    ELSE {x_next.p} \cup between(get_unmarked_ref(nxt[x_next.p][0]), x, fuel - 1)

\* "if (old_offset <= l->max_offset || l->head->next[0] != obs_hp) goto out"
\* and the CAS that swings head->next[0] from obs_hp to the marked x.  A CAS
\* that fails goes to "out" as the test does, with the same shared state, so
\* the test and the CAS are one step taken at the time of the CAS.
DelSwing(t) ==
    /\ th[t].pc = "del_swing"
    /\ LET r == th[t] IN
       IF r.old_offset <= max_offset \/ nxt[Head][0] # r.old_obs_hp
       THEN Return(t, r) /\ UNCHANGED <<nxt, gh>>
       ELSE /\ nxt' = [nxt EXCEPT ![Head][0] = get_marked_ref(r.x)]
            /\ th' = [th EXCEPT ![t] =
                        [r EXCEPT !.pc = "del_wse", !.x = get_marked_ref(r.x)]]
            /\ gh' = [gh EXCEPT !.swings = @ + 1,
                                 !.owed[t] = between(get_unmarked_ref(r.old_obs_hp),
                                                     get_unmarked_ref(r.x), Fuel)]
            /\ UNCHANGED <<st, hold>>
    /\ UNCHANGED <<key, level, max_offset, todo>>

\* lvl = weak_search_end(l, preds, -1), and the bail-out when head->next[0]
\* is no longer x.
DelSearchEnd(t) ==
    /\ th[t].pc \in {"del_wse", "del_bail"}
    /\ LET r == th[t] IN
       IF r.pc = "del_wse"
       THEN LET s == weak_search_end(r.preds, -1) IN
            /\ th' = [th EXCEPT ![t] =
                        IF s.res # "ok" THEN Broken(r, s.res)
                        ELSE [r EXCEPT !.pc = "del_bail", !.preds = s.pa, !.lvl = s.lvl]]
            /\ UNCHANGED <<st, hold>>
       ELSE IF nxt[Head][0] # r.x
            THEN Return(t, r)
            ELSE /\ th' = [th EXCEPT ![t] =
                             [r EXCEPT !.pc = IF r.lvl > 0 THEN "del_up_read" ELSE "del_free",
                                       !.i = r.lvl]]
                 /\ UNCHANGED <<st, hold>>
    /\ UNCHANGED <<nxt, key, level, max_offset, todo, gh>>

\* The for-loop over the upper levels: next = head->next[i]; the CAS of
\* head->next[i] from next to preds[i]->next[i]; after a failed CAS,
\* weak_search_end(l, preds, i) and the new read of head->next[i].
DelUpper(t) ==
    /\ th[t].pc \in {"del_up_read", "del_up_cas", "del_up_retry"}
    /\ LET r == th[t] IN
       IF r.pc = "del_up_read"
       THEN /\ th' = [th EXCEPT ![t] =
                        [r EXCEPT !.pc = "del_up_cas", !.next = nxt[Head][r.i]]]
            /\ UNCHANGED nxt
       ELSE IF r.pc = "del_up_cas"
       THEN IF ~Valid(Ref(r.preds[r.i]))
            THEN /\ th' = [th EXCEPT ![t] = Undefined(r)]
                 /\ UNCHANGED nxt
            ELSE IF nxt[Head][r.i] = r.next
            THEN /\ nxt' = [nxt EXCEPT ![Head][r.i] = nxt[r.preds[r.i]][r.i]]
                 /\ th' = [th EXCEPT ![t] =
                             [r EXCEPT !.pc = IF r.i - 1 > 0 THEN "del_up_read" ELSE "del_free",
                                       !.i = r.i - 1]]
            ELSE /\ th' = [th EXCEPT ![t] = [r EXCEPT !.pc = "del_up_retry"]]
                 /\ UNCHANGED nxt
       ELSE LET s == weak_search_end(r.preds, r.i) IN
            /\ th' = [th EXCEPT ![t] =
                        IF s.res # "ok" THEN Broken(r, s.res)
                        ELSE [r EXCEPT !.pc = "del_up_cas", !.preds = s.pa,
                                       !.next = nxt[Head][r.i]]]
            /\ UNCHANGED nxt
    /\ UNCHANGED <<key, level, st, hold, max_offset, todo, gh>>

\* What a call free_node(n) breaks, given the allocator state s: n is head
\* or tail, n was passed to free_node before, or no marking step took n.
free_faults(s, n) ==
    (IF n \in {Head, Tail} THEN {"sentinel"} ELSE {})
    \cup (IF n \in Nodes /\ s[n] # "alloc" THEN {"twice"} ELSE {})
    \cup (IF n \in Nodes /\ s[n] = "alloc" /\ gh.won[n] = 0 THEN {"live"} ELSE {})

\* The nodes of N that free_node, which reads the pool from n->level,
\* hands back to another pool than the one alloc_node took them from.
free_pool_faults(N) == {n \in N \cap Nodes : level[n] # gh.pool[n]}

RECURSIVE free_walk(_, _, _, _, _, _, _)
\* "while (x_next != get_unmarked_ref(x)) { free_node(ptst, x_next);
\*  x_next = get_unmarked_ref(x_next->next[0]); }" on the allocator state
\* (s, h) with nf[n] free_node calls and the faults bad so far.
free_walk(x_next, x, s, h, nf, bad, fuel) ==
    IF x_next = x THEN [res |-> "ok", st |-> s, hold |-> h, nfree |-> nf, bad |-> bad]
    ELSE IF fuel = 0 THEN [res |-> "loop", st |-> s, hold |-> h, nfree |-> nf, bad |-> bad]
    ELSE IF ~(x_next.m = 0 /\ x_next.p \in Nodes /\ s[x_next.p] # "avail")
    THEN [res |-> "ub", st |-> s, hold |-> h,
          nfree |-> IF x_next.m = 0 /\ x_next.p \in DOMAIN nf
                    THEN [nf EXCEPT ![x_next.p] = @ + 1] ELSE nf,
          bad |-> IF x_next.m = 0 THEN bad \cup free_faults(s, x_next.p) ELSE bad]
    ELSE LET f == free_node(s, h, x_next.p) IN
         free_walk(get_unmarked_ref(nxt[x_next.p][0]), x, f.st, f.hold,
                   [nf EXCEPT ![x_next.p] = @ + 1],
                   bad \cup free_faults(s, x_next.p), fuel - 1)

\* The recycling loop after the upper levels are updated, then "out:".
DelFree(t) ==
    /\ th[t].pc = "del_free"
    /\ LET r == th[t]
           f == free_walk(get_unmarked_ref(r.old_obs_hp), get_unmarked_ref(r.x),
                          st, hold, gh.nfree, gh.badfree, Fuel)
           done == {n \in AllNodes : f.nfree[n] > gh.nfree[n]}
       IN /\ gh' = [gh EXCEPT !.nfree = f.nfree,
                                !.badfree = f.bad,
                                !.owed[t] = @ \ done,
                                !.misfiled = @ \cup free_pool_faults(done),
                                !.stale = @ \cup {u \in Threads : th[u].pt.p \in done}]
          /\ IF f.res # "ok"
             THEN /\ th' = [th EXCEPT ![t] = Broken(r, f.res)]
                  /\ st' = f.st
                  /\ hold' = f.hold
             ELSE ReturnWith(t, r, f.st, f.hold)
    /\ UNCHANGED <<nxt, key, level, max_offset, todo>>

\* --------------------------------------------------------------- set_remove
\* The fetch-and-or of set_remove(ask) took effect and deleted the node
\* with key got (RetNull: the word was marked already, nothing deleted).
RemLP(g, ask, got) ==
    [g EXCEPT !.absq[got] = IF got \in Keys /\ @ > 0 THEN @ - 1 ELSE @,
              !.remAsk = ask, !.remGot = got,
              !.drainPrev = NoRet, !.drainCur = NoRet,
              !.dels = 0, !.swings = 0]

\* node = weak_search_predecessors(l, key, NULL, NULL, 1): no critical
\* section is entered.
RemBegin(t) ==
    /\ th[t].pc = "idle"
    /\ todo[t].rem > 0
    /\ \E k \in todo[t].keys :
         LET s == weak_search_predecessors(k, TRUE) IN
         /\ th' = [th EXCEPT ![t] =
                     IF s.res # "ok" THEN Broken(@, s.res)
                     ELSE [@ EXCEPT !.pc = "rem_fao", !.k = k, !.x = Ref(s.x)]]
         /\ gh' = [Undoes(t, k) EXCEPT !.rem = TRUE]
    /\ todo' = [todo EXCEPT ![t].rem = @ - 1]
    /\ UNCHANGED <<nxt, key, level, st, hold, max_offset>>

\* node = FAO(&node->next[0], 1); the result is NULL when it was marked.
RemMark(t) ==
    /\ th[t].pc = "rem_fao"
    /\ LET r == th[t] IN
       IF ~Valid(r.x)
       THEN /\ th' = [th EXCEPT ![t] = Undefined(r)]
            /\ UNCHANGED <<nxt, gh>>
       ELSE LET w == nxt[r.x.p][0]
                got == IF is_marked_ref(w) \/ ~Valid(w) THEN RetNull ELSE key[w.p]
            IN /\ nxt' = [nxt EXCEPT ![r.x.p][0] = get_marked_ref(w)]
               /\ th' = [th EXCEPT ![t] = Idle(r)]
               /\ gh' = RemLP(Marked(gh, t, w), r.k, got)
    /\ UNCHANGED <<key, level, st, hold, max_offset, todo>>

\* -------------------------------------------------------------------- runs
Step(t) ==
    \/ InsBegin(t)
    \/ InsSearch(t)
    \/ InsCommit(t)
    \/ InsOrphan(t)
    \/ InsUpper(t)
    \/ DelBegin(t)
    \/ DelWalk(t)
    \/ DelSwing(t)
    \/ DelSearchEnd(t)
    \/ DelUpper(t)
    \/ DelFree(t)
    \/ RemBegin(t)
    \/ RemMark(t)

Next == \E t \in Threads : Step(t)

\* The calls a thread has still to make (how many of each kind), the keys
\* it inserts and the levels its random generator draws.
Calls(i, d, r, K, L) == [ins |-> i, del |-> d, rem |-> r, keys |-> K, lvls |-> L]

NoCalls == Calls(0, 0, 0, {}, {})

AllLevels == 1..NUM_LEVELS

\* One thread calls up to SeqIns inserts, SeqDel delete_mins and SeqRem
\* removes in any order; the others call nothing.
SeqIns == 3
SeqDel == 3
SeqRem == 1

InitSeq ==
    /\ Init0
    /\ max_offset \in {1, 2}
    /\ todo = [t \in Threads |-> IF t = 1 THEN Calls(SeqIns, SeqDel, SeqRem, Keys, AllLevels)
                                 ELSE NoCalls]

SpecSeq == InitSeq /\ [][Next]_vars

\* Two threads race to mark: one inserts a key and calls delete_min, the
\* other calls delete_min and set_remove; max_offset is so large that no
\* call cleans up, and every node has one level.
StepMark(t) ==
    \/ InsBegin(t)
    \/ InsSearch(t)
    \/ InsCommit(t)
    \/ InsOrphan(t)
    \/ DelBegin(t)
    \/ DelWalk(t)
    \/ DelSwing(t)
    \/ RemBegin(t)
    \/ RemMark(t)

NextMark == \E t \in Threads : StepMark(t)

RaceOffset == 4
RaceDel == 2

InitRace ==
    /\ Init0
    /\ max_offset = RaceOffset
    /\ todo = [t \in Threads |->
                IF t = 1 THEN Calls(1, RaceDel, 0, {1}, {1})
                ELSE IF t = 2 THEN Calls(0, RaceDel, 1, {1}, {1})
                ELSE NoCalls]

SpecRace == InitRace /\ [][NextMark]_vars

\* insert and delete_min only.
StepPQ(t) ==
    \/ InsBegin(t)
    \/ InsSearch(t)
    \/ InsCommit(t)
    \/ InsOrphan(t)
    \/ InsUpper(t)
    \/ DelBegin(t)
    \/ DelWalk(t)
    \/ DelSwing(t)
    \/ DelSearchEnd(t)
    \/ DelUpper(t)
    \/ DelFree(t)

NextPQ == \E t \in Threads : StepPQ(t)

\* One thread inserts while the other inserts and calls delete_min with
\* cleanups (max_offset = 1).
ReclaimDel == 2

InitReclaim ==
    /\ Init0
    /\ max_offset = 1
    /\ todo = [t \in Threads |->
                IF t = 1 THEN Calls(1, 0, 0, {1}, AllLevels)
                ELSE IF t = 2 THEN Calls(1, ReclaimDel, 0, {2}, AllLevels)
                ELSE NoCalls]

SpecReclaim == InitReclaim /\ [][NextPQ]_vars

\* insert and delete_min on nodes of one level.
StepFlat(t) ==
    \/ InsBegin(t)
    \/ InsSearch(t)
    \/ InsCommit(t)
    \/ InsOrphan(t)
    \/ DelBegin(t)
    \/ DelWalk(t)
    \/ DelSwing(t)
    \/ DelSearchEnd(t)
    \/ DelFree(t)

NextFlat == \E t \in Threads : StepFlat(t)

\* Two threads take turns at delete_min with cleanups (max_offset = 1)
\* while freed nodes are allocated again.
CacheIns == 2
CacheDel == 3

InitCache ==
    /\ Init0
    /\ max_offset = 1
    /\ todo = [t \in Threads |->
                IF t = 1 THEN Calls(CacheIns, CacheDel, 0, {1}, {1})
                ELSE IF t = 2 THEN Calls(1, 1, 0, {1}, {1})
                ELSE NoCalls]

SpecCache == InitCache /\ [][NextFlat]_vars

\* One thread calls delete_min again and again (max_offset = 1) while the
\* other inserts into freed nodes and cleans up once.
ResumeIns == 3
ResumeDel == 3

InitResume ==
    /\ Init0
    /\ max_offset = 1
    /\ todo = [t \in Threads |->
                IF t = 1 THEN Calls(2, ResumeDel, 0, {1}, {1})
                ELSE IF t = 2 THEN Calls(ResumeIns, 1, 0, {1}, {1})
                ELSE NoCalls]

SpecResume == InitResume /\ [][NextFlat]_vars

\* ------------------------------------------------------- reading the queue
RECURSIVE live_from(_, _, _)
\* The keys of the nodes on the bottom chain from the word w on that are not
\* deleted: a node is deleted when the word that points to it is marked.
live_from(w, b, fuel) ==
    IF fuel = 0 \/ w.m > 1 \/ w.p \notin (Nodes \cup {Tail}) THEN b
    ELSE live_from(nxt[w.p][0],
                   IF w.m = 0 /\ w.p # Tail THEN [b EXCEPT ![key[w.p]] = @ + 1] ELSE b,
                   fuel - 1)

LiveBag == live_from(nxt[Head][0], Bag0, Fuel)

\* No call is under way.
Quiescent == \A t \in Threads : th[t].pc = "idle"

\* A result of delete_min as a rank: both ways of reporting "empty" (tail's
\* key and NULL) come after every key.
Rank(k) == IF k = RetNull THEN SENTINEL_KEYMAX ELSE k

RECURSIVE reach_from(_, _, _)
\* The nodes after x on the chain of level i.
reach_from(x, i, fuel) ==
    LET w == get_unmarked_ref(nxt[x][i]) IN
    IF fuel = 0 \/ w.m # 0 \/ w.p \notin (Nodes \cup {Tail}) THEN {}
    ELSE {w.p} \cup reach_from(w.p, i, fuel - 1)

Reach(i) == reach_from(Head, i, Fuel)

\* free_node(n) was called and n was not allocated again.
Freed(n) == st[n] = "retired" \/ (st[n] = "avail" /\ gh.nfree[n] > 0)

\* Thread t is about to read pt->next[0] on the resume branch.
Resumes(t) ==
    /\ th[t].pc = "del_walk"
    /\ th[t].offset = 0
    /\ th[t].x # Ref(Head)

\* ------------------------------------------------------------------ claims
\* C1: in every history of insert and delete_min calls, each delete_min, at
\* the step that sets its mark, takes a minimum of the keys linked (by a
\* level-0 CAS) and not yet taken, or reports empty when there is none.
\* Stated for the histories in which tail was never taken.
C1_Linearisable == (~gh.rem /\ gh.won[Tail] = 0) => (gh.known /\ gh.wasMin)

\* C1: a delete_min has set its mark in a run of insert and delete_min calls.
C1_Reached == ~gh.rem /\ gh.drainCur \in Keys

\* C2: after a finished run of insert and delete_min calls, consecutive
\* delete_min calls return keys in non-decreasing order, and report empty
\* only when no key is left.  Stated for the runs in which tail was never
\* taken.
C2_DrainSorted ==
    (~gh.rem /\ gh.won[Tail] = 0 /\ Quiescent /\ gh.drainPrev # NoRet) =>
        /\ Rank(gh.drainPrev) <= Rank(gh.drainCur)
        /\ (Rank(gh.drainCur) = SENTINEL_KEYMAX => LiveBag = Bag0)

\* C2: two consecutive delete_min calls returned keys after a finished run.
C2_Drained ==
    /\ ~gh.rem /\ gh.won[Tail] = 0 /\ Quiescent
    /\ gh.drainPrev \in Keys /\ gh.drainCur \in Keys

\* C3: after every completed call of a sequential run of insert and
\* delete_min calls, the keys inserted and not returned are the keys of the
\* non-deleted nodes on the bottom chain, and every returned key was one of
\* them.
C3_Conservation == (~gh.rem /\ Quiescent) => (LiveBag = gh.absq /\ gh.known)

\* C3: a delete_min returned a key, its cleanup freed a node, and a key is
\* still in the queue.
C3_AfterCleanup ==
    /\ ~gh.rem /\ Quiescent
    /\ gh.drainCur \in Keys
    /\ \E n \in Nodes : gh.nfree[n] > 0
    /\ LiveBag # Bag0

\* C4: of the marking steps (fetch-and-add in delete_min, fetch-or in
\* set_remove) on the word that points to a node, exactly one gets back an
\* unmarked word: no node is taken by two calls.
C4_OneWinner == \A n \in Nodes : gh.won[n] <= 1

\* C4: two threads are at the fetch-and-add on the same word, which points
\* to a node.
C4_Race ==
    /\ th[1].pc = "del_faa" /\ th[2].pc = "del_faa"
    /\ th[1].x = th[2].x
    /\ th[1].x_next.p \in Nodes

\* C5: delete_min on a queue without live element leaves the queue as it
\* is: the word that points to tail is never marked, and no walk reads
\* tail's forward pointer.
C5_EmptyUntouched ==
    ~gh.rem =>
        /\ \A n \in AllNodes : ~(nxt[n][0].p = Tail /\ is_marked_ref(nxt[n][0]))
        /\ \A t \in Threads : th[t].pc \in {"del_walk", "del_faa"} => th[t].x # Ref(Tail)

\* C5: a delete_min called on a queue without live element has returned.
C5_OnEmpty ==
    /\ ~gh.rem /\ Quiescent
    /\ gh.absq = Bag0
    /\ Rank(gh.drainCur) = SENTINEL_KEYMAX

\* C6: set_remove(key) deletes a node with that key or none.
C6_RemoveExact == gh.remGot # NoRet => gh.remGot \in {RetNull, gh.remAsk}

\* C6: a set_remove call has returned.
C6_Removed == Quiescent /\ gh.remGot # NoRet

\* C7: after insert(K) and then the removal of K (set_remove(K), or
\* delete_min when K is the smallest key), the live keys are those before
\* the insert.
C7_RoundTrip == (gh.rt.on /\ Quiescent) => LiveBag = gh.rt.want

\* C7: set_remove(K) has returned right after insert(K).
C7_Undone == gh.rt.on /\ Quiescent /\ gh.remAsk # NoRet
\* C8: a node passed to free_node is on no level reachable from head.
\* Stated for the runs in which tail was never taken.
C8_FreedUnreachable ==
    gh.won[Tail] = 0 => \A i \in Levels : \A n \in Reach(i) \cap Nodes : ~Freed(n)

\* C8: a cleanup passed a node to free_node while an insert is under way.
C8_FreeDuringInsert ==
    /\ \E n \in Nodes : Freed(n)
    /\ \E t \in Threads : th[t].pc \in {"ins_upper", "ins_recheck"}

\* C9: a delete_min that resumes from the cached pt reads a node that was
\* not passed to free_node since it was cached.  Stated for the runs in
\* which tail was never taken.
C9_ResumeLive ==
    gh.won[Tail] = 0 => \A t \in Threads : Resumes(t) => t \notin gh.stale

\* C9: a delete_min resumes from the cached pt after a cleanup freed nodes.
C9_Resumed ==
    /\ \E t \in Threads : Resumes(t)
    /\ \E n \in Nodes : gh.nfree[n] > 0

\* C10: every call of insert and delete_min that has begun can take a step
\* until it returns.
C10_Returns == ~gh.rem => \A t \in Threads : th[t].pc # "idle" => ENABLED Step(t)

\* C10: a delete_min has gone round the loop of its walk.
C10_InLoop ==
    \E t \in Threads :
        ~gh.rem /\ gh.won[Tail] = 0 /\ th[t].pc = "del_faa" /\ th[t].offset >= 2

RECURSIVE live_sorted(_, _, _)
\* The keys of the non-deleted nodes on the bottom chain from the word w on
\* are non-decreasing and not below k.
live_sorted(w, k, fuel) ==
    IF fuel = 0 \/ w.m > 1 \/ w.p \notin (Nodes \cup {Tail}) THEN TRUE
    ELSE IF w.m = 0
    THEN k <= key[w.p] /\ live_sorted(nxt[w.p][0], key[w.p], fuel - 1)
    ELSE live_sorted(nxt[w.p][0], k, fuel - 1)

RECURSIVE all_sorted(_, _, _)
\* The keys of all nodes on the bottom chain from the word w on, deleted or
\* not, are non-decreasing and not below k, and the chain ends at tail.
all_sorted(w, k, fuel) ==
    LET u == get_unmarked_ref(w) IN
    IF fuel = 0 \/ u.m # 0 \/ u.p \notin (Nodes \cup {Tail}) THEN FALSE
    ELSE /\ k <= key[u.p]
         /\ IF u.p = Tail THEN nxt[Tail][0].p = END
            ELSE all_sorted(nxt[u.p][0], key[u.p], fuel - 1)

RECURSIVE prefix_deleted(_, _, _)
\* Node x is on the bottom chain after node n, and every node from there up
\* to and including x was taken by a marking step.
prefix_deleted(n, x, fuel) ==
    IF n = x THEN TRUE
    ELSE IF fuel = 0 THEN FALSE
    ELSE LET w == nxt[n][0] IN
         /\ w.p \in (Nodes \cup {Tail})
         /\ gh.won[w.p] >= 1
         /\ prefix_deleted(w.p, x, fuel - 1)

\* Thread t's fetch-and-add wins in this step.
Wins(t) == th[t].pc = "del_faa" /\ th'[t].pc = "del_swing"

\* Node n is being prepared by an insert and is not linked yet.
Private(n) ==
    \E t \in Threads :
        th[t].new = n /\ th[t].pc \in {"ins_search", "ins_commit", "ins_check",
                                       "orph_read", "orph_cas"}

\* C11: in a sequential run, after D consecutive delete_min calls that took
\* keys and left at least one key in the queue, at least floor(D / max_offset)
\* head swings succeeded during these calls.  Stated for the runs in which
\* tail was never taken.
C11_SwingFrequency ==
    (~gh.rem /\ gh.won[Tail] = 0 /\ gh.seq /\ Quiescent /\ gh.dels > 0 /\ gh.absq # Bag0) =>
        gh.swings >= gh.dels \div max_offset

\* C11: consecutive delete_min calls with a head swing among them have
\* returned and a key is left.
C11_Swung ==
    /\ ~gh.rem /\ gh.won[Tail] = 0 /\ Quiescent
    /\ gh.dels >= 2 /\ gh.swings >= 1 /\ gh.absq # Bag0

\* C12: the keys of the non-deleted nodes met along next[0] from head are
\* in non-decreasing order.  Stated for the runs of insert and delete_min in
\* which tail was never taken.
C12_LiveSorted ==
    (~gh.rem /\ gh.won[Tail] = 0) => live_sorted(nxt[Head][0], SENTINEL_KEYMIN, Fuel)

\* C12: an insert is in the orphan-placement loop while a live node follows
\* the deleted prefix.
C12_OrphanInsert ==
    /\ ~gh.rem /\ gh.won[Tail] = 0
    /\ \E t \in Threads : th[t].pc = "orph_cas"
    /\ LiveBag # Bag0

\* C13: the keys of all linked nodes along next[0] from head, deleted ones
\* included, are in non-decreasing order, and the chain ends at tail with
\* nothing linked behind it.  Stated for the runs of insert and delete_min
\* in which tail was never taken.
C13_SortedBottom ==
    (~gh.rem /\ gh.won[Tail] = 0) => all_sorted(nxt[Head][0], SENTINEL_KEYMIN, Fuel)

\* C13: a deleted node is linked in front of a live node.
C13_DeletedLinked ==
    /\ ~gh.rem /\ gh.won[Tail] = 0
    /\ is_marked_ref(nxt[Head][0]) /\ nxt[Head][0].p \in Nodes
    /\ LiveBag # Bag0

\* Every node on an upper-level chain from head is on the bottom chain.
Contained == \A i \in 1..(NUM_LEVELS - 1) : Reach(i) \subseteq Reach(0)

\* C14: every node reachable from head on a level i >= 1 is reachable from
\* head on level 0.  Stated for the states in which no call is under way, in
\* the runs in which tail was never taken.
C14_Contained == (gh.won[Tail] = 0 /\ Quiescent) => Contained

\* C14: all calls have returned, a cleanup freed a node and a node is linked
\* on an upper level.
C14_UpperLinked ==
    /\ gh.won[Tail] = 0 /\ Quiescent
    /\ \E n \in Nodes : gh.nfree[n] > 0
    /\ \E i \in 1..(NUM_LEVELS - 1) : Reach(i) \cap Nodes # {}

\* C15: a marked next[0] word of a linked node that points to a node stays
\* as it is in every step; head's word, once marked, stays marked.
C15_MarksPermanent ==
    [][\A n \in AllNodes :
          (is_marked_ref(nxt[n][0]) /\ nxt[n][0].p \in Nodes /\ ~Private(n)) =>
              IF n = Head THEN is_marked_ref(nxt'[n][0]) ELSE nxt'[n][0] = nxt[n][0]]_vars

\* C15: a delete_min is at its fetch-and-add on a word that another call
\* marked after the delete_min read it.
C15_SecondAdd ==
    \E t \in Threads :
        /\ th[t].pc = "del_faa"
        /\ th[t].x.p \in AllNodes
        /\ th[t].x_next.p \in Nodes
        /\ is_marked_ref(nxt[th[t].x.p][0])

\* C16: at the step where delete_min wins a node (not tail), the node
\* whose key it returns has its own next[0] marked.
C16_MarkOnVictim ==
    [][\A t \in Threads :
          (Wins(t) /\ th'[t].x.p \in Nodes) => is_marked_ref(nxt'[th'[t].x.p][0])]_vars

\* C16: a delete_min has won a node and is about to return its key.
C16_Won ==
    \E t \in Threads : ~gh.rem /\ th[t].pc = "del_swing" /\ th[t].ret \in Keys

\* C17: in the runs of insert and delete_min in which tail is never taken,
\* head.next[0] changes only in the head-swing CAS of delete_min.
C17_HeadOnlySwing ==
    [][(~gh'.rem /\ gh'.won[Tail] = 0 /\ nxt'[Head][0] # nxt[Head][0]) =>
          \E t \in Threads : th[t].pc = "del_swing" /\ th'[t].pc = "del_wse"]_vars

\* C17: a head-swing CAS has just succeeded.
C17_Swung ==
    \E t \in Threads : ~gh.rem /\ gh.won[Tail] = 0 /\ th[t].pc = "del_wse"

\* C18: at the step where a delete_min wins a node (not tail), the node
\* whose word it marks is on the bottom chain from head, and every node up
\* to and including it was taken by an earlier marking step.  Stated for the
\* runs in which tail was never taken.
C18_Leftmost ==
    [][\A t \in Threads :
          (Wins(t) /\ th'[t].x.p \in Nodes /\ gh'.won[Tail] = 0) =>
              prefix_deleted(Head, th[t].x.p, Fuel)]_vars

\* C18: a delete_min that resumed from the cached pt is at its
\* fetch-and-add on a word that points to a node.
C18_ResumedWin ==
    \E t \in Threads :
        /\ gh.won[Tail] = 0
        /\ th[t].pc = "del_faa" /\ th[t].offset = 1 /\ th[t].x # Ref(Head)
        /\ th[t].x_next.p \in Nodes

\* No next[0] word was added to twice.
SingleMarks == \A n \in AllNodes : nxt[n][0].m <= 1

\* C19: when a delete_min whose head-swing CAS succeeded has returned, it
\* has passed every node between old_obs_hp and x to free_node.  Stated for
\* the runs in which tail was never taken and no word was marked twice.
C19_AllReclaimed ==
    \A t \in Threads :
        (gh.won[Tail] = 0 /\ SingleMarks /\ th[t].pc = "idle") => gh.owed[t] = {}

\* C19: a thread whose head-swing CAS succeeded is at the bail-out test
\* after another thread swung the head again.
C19_SwungAgain ==
    \E t \in Threads :
        /\ gh.won[Tail] = 0 /\ SingleMarks
        /\ th[t].pc = "del_bail"
        /\ nxt[Head][0] # th[t].x
        /\ gh.owed[t] # {}

\* C20: no free_node call is made for head or tail, for a node passed to
\* free_node before, or for a node that no marking step took.  Stated for
\* the runs in which tail was never taken.
C20_NoDoubleFree == gh.won[Tail] = 0 => gh.badfree = {}

\* C20: two head swings by different threads have each freed a node.
C20_TwoCleanups ==
    /\ gh.won[Tail] = 0
    /\ \E m, n \in Nodes : m # n /\ gh.nfree[m] > 0 /\ gh.nfree[n] > 0

\* Thread t is inside a call of insert (set_update) or delete_min
\* (set_removemin).
InUpdate(t) == Busy(t) /\ th[t].pc # "rem_fao"

\* C21: in the runs of insert and delete_min, a thread that is between two
\* calls is in no critical section, and a thread inside a call, where it
\* reads the shared next fields, is in one.
C21_Balanced ==
    ~gh.rem =>
        \A t \in Threads :
            /\ th[t].pc = "idle" => th[t].crit = 0
            /\ InUpdate(t) => th[t].crit >= 1

\* C21: a delete_min has read END and returned NULL.
C21_ReturnedAtEnd ==
    \E t \in Threads : ~gh.rem /\ th[t].pc = "idle" /\ th[t].ret = RetNull

\* C22: every node passed to free_node goes back to the pool alloc_node
\* took it from.  Stated for the runs in which tail was never taken.
C22_SamePool == gh.won[Tail] = 0 => gh.misfiled = {}

\* C22: a node whose insert went through the orphan placement has been
\* passed to free_node.
C22_OrphanFreed ==
    /\ gh.won[Tail] = 0
    /\ \E n \in Nodes : gh.nfree[n] > 0 /\ st[n] # "alloc" /\ level[n] < gh.pool[n]
====
